---- MODULE Spec2Model ----
(***************************************************************************)
(* TernaryHeap<T> of src/src/lib.rs: a max-priority queue kept as an       *)
(* implicit ternary heap in a Vec<T>.  T is modelled by the naturals       *)
(* 0..MaxVal under their usual total order.  Rust indices are 0-based;     *)
(* At/Swap translate them to TLA+'s 1-based sequences.                     *)
(***************************************************************************)
EXTENDS Integers, Sequences, FiniteSets, Bags, TLC

(* ---------------------------- bounds ----------------------------------- *)
MaxVal == 2          \* element values are 0..MaxVal
MaxIns == 5          \* at most MaxIns elements are ever inserted into one heap
MaxCap == 2          \* with_capacity arguments are 0..MaxCap
UsizeBits == 4       \* width of usize in the model (64 on the real targets)

Values == 0..MaxVal
UsizeMod == 2^UsizeBits

(* Option<T>: None is the empty sequence, Some(x) the one-element sequence *)
None == <<>>
Some(x) == <<x>>

(* ------------------------- Vec<T> primitives --------------------------- *)
At(d, i) == d[i + 1]

Swap(d, i, j) == [d EXCEPT ![i + 1] = d[j + 1], ![j + 1] = d[i + 1]]

\* Vec::pop: removes and returns the last element, None when empty
VecPop(d) ==
    IF Len(d) = 0
    THEN [data |-> d, ret |-> None]
    ELSE [data |-> SubSeq(d, 1, Len(d) - 1), ret |-> Some(d[Len(d)])]

(* --------------------------- index arithmetic -------------------------- *)
\* slip: the parent of a binary heap
parent_binary(child) == IF child = 0 THEN 0 ELSE (child - 1) \div 2

parent(child) == IF child = 0 THEN 0 ELSE (child - 1) \div 3

\* slip: `>` for `>=` in the test for "no child"
children_gt(p, end) ==
    LET first_child == p * 3 + 1
        last_child  == IF first_child + 3 <= end THEN first_child + 3 ELSE end
    IN  IF first_child > end
        THEN None
        ELSE Some([k \in 1..(last_child - first_child) |-> first_child + k - 1])

\* Some(first_child .. last_child - 1) as a Vec, or None
children(p, end) ==
    LET first_child == p * 3 + 1
        last_child  == IF first_child + 3 <= end THEN first_child + 3 ELSE end
    IN  IF first_child >= end
        THEN None
        ELSE Some([k \in 1..(last_child - first_child) |-> first_child + k - 1])

\* Iterator::max_by_key: of several maximal elements the last one is returned
RECURSIVE MaxByKey(_, _, _, _)
MaxByKey(d, vec, k, best) ==
    IF k > Len(vec) THEN best
    ELSE MaxByKey(d, vec, k + 1,
                  IF At(d, vec[k]) >= At(d, best) THEN vec[k] ELSE best)

\* slip: the first child is taken instead of the largest one
best_child_first(d, p, end) ==
    LET c == children(p, end)
    IN  IF c = None THEN None ELSE Some(c[1][1])

best_child(d, p, end) ==
    LET c == children(p, end)
    IN  IF c = None THEN None
        ELSE Some(MaxByKey(d, c[1], 2, c[1][1]))

(* --------------------------- restore operations ------------------------ *)
\* slip: `if` instead of `while`, the new element climbs one level at most
swim_once(d, pos) ==
    IF pos > 0 /\ At(d, pos) > At(d, parent(pos))
    THEN Swap(d, pos, parent(pos))
    ELSE d

RECURSIVE swim(_, _)
swim(d, pos) ==
    IF pos > 0
    THEN LET par == parent(pos)
         IN  IF At(d, pos) <= At(d, par) THEN d
             ELSE swim(Swap(d, pos, par), par)
    ELSE d

RECURSIVE sink_until(_, _, _)
sink_until(d, pos, end) ==
    LET bc == best_child(d, pos, end)
    IN  IF bc = None THEN d
        ELSE LET child == bc[1]
             IN  IF At(d, pos) >= At(d, child) THEN d
                 ELSE sink_until(Swap(d, pos, child), child, end)

sink(d, pos) == sink_until(d, pos, Len(d))

(* ------------------------------ public API ----------------------------- *)
new == <<>>

with_capacity(capacity) == <<>>

\* slip: a value already stored is not stored again
push_dedup(d, item) ==
    IF \E k \in 1..Len(d) : d[k] = item
    THEN d
    ELSE swim(Append(d, item), Len(d))

push(d, item) ==
    LET old_len == Len(d)
    IN  swim(Append(d, item), old_len)

\* slip: the root is moved last but the new root is never sunk
pop_nosink(d) ==
    IF Len(d) # 0
    THEN VecPop(Swap(d, 0, Len(d) - 1))
    ELSE VecPop(d)

\* slip: the root is not swapped with the last element before the removal
pop_noswap(d) ==
    IF Len(d) # 0
    THEN VecPop(sink_until(d, 0, Len(d) - 1))
    ELSE VecPop(d)

\* slip: an empty heap answers with a default value instead of None
pop_or_default(d) ==
    IF Len(d) # 0
    THEN VecPop(sink_until(Swap(d, 0, Len(d) - 1), 0, Len(d) - 1))
    ELSE [data |-> d, ret |-> Some(0)]

pop(d) ==
    IF Len(d) # 0
    THEN LET last == Len(d) - 1
         IN  VecPop(sink_until(Swap(d, 0, last), 0, last))
    ELSE VecPop(d)

\* slip: the loop runs over (1..=last_parent) and never sinks the root
RECURSIVE HeapifySkipRoot(_, _)
HeapifySkipRoot(d, p) ==
    IF p = 0 THEN d ELSE HeapifySkipRoot(sink(d, p), p - 1)

\* for parent in (0..=last_parent).rev() { heap.sink(parent) }
RECURSIVE HeapifyFrom(_, _)
HeapifyFrom(d, p) ==
    IF p = 0 THEN sink(d, p) ELSE HeapifyFrom(sink(d, p), p - 1)

\* heap.len() - 1 on usize: a debug build panics when len = 0, a release
\* build wraps around to usize::MAX and runs the loop over an empty Vec.
from(vec, build) ==
    IF Len(vec) = 0 /\ build = "debug"
    THEN [fault |-> TRUE, data |-> vec]
    ELSE LET last_parent == parent((Len(vec) - 1) % UsizeMod)
         IN  [fault |-> FALSE, data |-> HeapifyFrom(vec, last_parent)]

\* slip: the conversion sorts, as BinaryHeap::into_sorted_vec does
RECURSIVE InsertSorted(_, _)
InsertSorted(s, x) ==
    IF s = <<>> THEN <<x>>
    ELSE IF x <= Head(s) THEN <<x>> \o s
    ELSE <<Head(s)>> \o InsertSorted(Tail(s), x)

RECURSIVE into_sorted_vec(_)
into_sorted_vec(d) ==
    IF d = <<>> THEN <<>>
    ELSE InsertSorted(into_sorted_vec(Tail(d)), Head(d))

\* From<TernaryHeap<T>> for Vec<T>
into_vec(d) == d

(* ------------------------------- helpers ------------------------------- *)
RECURSIVE BagOf(_)
BagOf(s) == IF s = <<>> THEN EmptyBag ELSE BagOf(Tail(s)) (+) SetToBag({Head(s)})

\* tests::verify_heap
verify_heap(d) ==
    \A i \in 0..(Len(d) - 1) :
        LET c == children(i, Len(d))
        IN  c # None => \A k \in 1..Len(c[1]) : At(d, i) >= At(d, c[1][k])

NonIncreasing(s) == \A k \in 1..(Len(s) - 1) : s[k] >= s[k + 1]

SeqsUpTo(n) == UNION {[1..k -> Values] : k \in 0..n}

\* reference max-priority queue (std BinaryHeap in the tests): a multiset
RefMax(b) == CHOOSE m \in BagToSet(b) : \A x \in BagToSet(b) : m >= x
RefPop(b) ==
    IF b = EmptyBag
    THEN [bag |-> b, ret |-> None]
    ELSE [bag |-> b (-) SetToBag({RefMax(b)}), ret |-> Some(RefMax(b))]

(* -------------------------------- state -------------------------------- *)
VARIABLES
    pc,        \* "start", "live", "consumed" (into Vec) or "faulted" (panic)
    data,      \* TernaryHeap.data
    origin,    \* constructor that made the heap
    arg,       \* the Vec handed to from (<<>> for the other constructors)
    last_op,   \* last operation called
    prev,      \* data before the last operation
    ret,       \* result of the last pop
    pushed,    \* values pushed so far, in call order
    pops,      \* number of pop calls made on a non-empty heap
    drain,     \* values returned by pop since the last insertion
    ref,       \* the reference priority queue
    refRet,    \* result of the reference queue's last pop
    vec,       \* result of the conversion into Vec
    alt,       \* the same heap under another choice among equal largest children
    altRet     \* result of the last pop of alt

vars == <<pc, data, origin, arg, last_op, prev, ret, pushed, pops, drain,
          ref, refRet, vec, alt, altRet>>

Init ==
    /\ pc = "start"
    /\ data = <<>>
    /\ origin = "none"
    /\ arg = <<>>
    /\ last_op = "none"
    /\ prev = <<>>
    /\ ret = None
    /\ pushed = <<>>
    /\ pops = 0
    /\ drain = <<>>
    /\ ref = EmptyBag
    /\ refRet = None
    /\ vec = <<>>
    /\ alt = <<>>
    /\ altRet = None

New ==
    /\ pc = "start"
    /\ pc' = "live"
    /\ data' = new
    /\ origin' = "new"
    /\ last_op' = "new"
    /\ UNCHANGED <<arg, prev, ret, pushed, pops, drain, ref, refRet, vec, alt, altRet>>

WithCapacity ==
    /\ pc = "start"
    /\ \E capacity \in 0..MaxCap : data' = with_capacity(capacity)
    /\ pc' = "live"
    /\ origin' = "with_capacity"
    /\ last_op' = "with_capacity"
    /\ UNCHANGED <<arg, prev, ret, pushed, pops, drain, ref, refRet, vec, alt, altRet>>

From ==
    /\ pc = "start"
    /\ \E v \in SeqsUpTo(MaxIns), build \in {"debug", "release"} :
         LET r == from(v, build)
         IN  /\ arg' = v
             /\ pc' = IF r.fault THEN "faulted" ELSE "live"
             /\ data' = r.data
             /\ ref' = BagOf(v)
    /\ origin' = "from"
    /\ last_op' = "from"
    /\ UNCHANGED <<prev, ret, pushed, pops, drain, refRet, vec, alt, altRet>>

Push ==
    /\ pc = "live"
    /\ Len(arg) + Len(pushed) < MaxIns
    /\ \E item \in Values :
         /\ data' = push(data, item)
         /\ pushed' = Append(pushed, item)
         /\ ref' = ref (+) SetToBag({item})
    /\ prev' = data
    /\ last_op' = "push"
    /\ drain' = <<>>
    /\ UNCHANGED <<pc, origin, arg, ret, pops, refRet, vec, alt, altRet>>

Pop ==
    /\ pc = "live"
    /\ LET r == pop(data)
           q == RefPop(ref)
       IN  /\ data' = r.data
           /\ ret' = r.ret
           /\ drain' = drain \o r.ret
           /\ ref' = q.bag
           /\ refRet' = q.ret
    /\ pops' = IF Len(data) # 0 THEN pops + 1 ELSE pops
    /\ prev' = data
    /\ last_op' = "pop"
    /\ UNCHANGED <<pc, origin, arg, pushed, vec, alt, altRet>>

IntoVec ==
    /\ pc = "live"
    /\ vec' = into_vec(data)
    /\ pc' = "consumed"
    /\ prev' = data
    /\ last_op' = "into_vec"
    /\ UNCHANGED <<data, origin, arg, ret, pushed, pops, drain, ref, refRet, alt, altRet>>

Next == New \/ WithCapacity \/ From \/ Push \/ Pop \/ IntoVec

Spec == Init /\ [][Next]_vars

(* ------------------------ derived pure functions ----------------------- *)
\* push every element of s, in order, onto the heap d
RECURSIVE PushAll(_, _)
PushAll(d, s) == IF s = <<>> THEN d ELSE PushAll(push(d, Head(s)), Tail(s))

\* pop until the heap is empty; the values returned, in order
RECURSIVE DrainAll(_)
DrainAll(d) == IF d = <<>> THEN <<>> ELSE pop(d).ret \o DrainAll(pop(d).data)

\* the two concrete scenarios of the specification's testable properties
ScenarioPushes == DrainAll(PushAll(new, <<5, 3, 8, 1, 9, 2>>))
ScenarioFrom == DrainAll(from(<<4, 1, 7, 3, 8, 2, 9, 0>>, "release").data)

Inserted == arg \o pushed

\* the heap was made by new, with_capacity or from on a non-empty sequence
ProperOrigin == origin = "from" => arg # <<>>

(* ------------------------------- claims -------------------------------- *)

\* C1: in every state reached from new(), with_capacity(n) or from(non-empty
\* sequence) by push and pop calls, no child value exceeds its parent value
\* once the call has returned.
C1_HeapInvariant ==
    (pc = "live" /\ ProperOrigin) => verify_heap(data)

\* a pop that had to sink through a heap of two levels below the root
C1_Witness ==
    /\ pc = "live" /\ last_op = "pop"
    /\ Len(prev) = 5 /\ At(prev, 4) < At(prev, 1)
    /\ At(data, 0) > At(data, 3)

\* C2: applied to a heap started with new() and to a reference max-priority
\* queue, every pop of any interleaving of pushes and pops returns the same
\* value, or the same absence, in both.
C2_AgreesWithReference ==
    (origin = "new" /\ last_op = "pop") => ret = refRet

\* a pop that follows a push that itself followed a pop
C2_Witness ==
    /\ origin = "new" /\ last_op = "pop"
    /\ pops >= 2 /\ Len(drain) = 1 /\ Len(data) >= 2

\* C3: pop on a non-empty heap that satisfies the invariant returns Some(m)
\* with m a maximum of the stored multiset, and stores afterwards the former
\* multiset less one occurrence of m.
C3_PopReturnsMax ==
    (last_op = "pop" /\ prev # <<>> /\ verify_heap(prev)) =>
        /\ ret # None
        /\ \A k \in 1..Len(prev) : ret[1] >= prev[k]
        /\ BagOf(data) (+) SetToBag({ret[1]}) = BagOf(prev)

\* a pop on a heap that holds its maximum twice and smaller values as well
C3_Witness ==
    /\ last_op = "pop" /\ Len(prev) >= 4
    /\ ret = Some(MaxVal)
    /\ \E k \in 1..Len(data) : data[k] = MaxVal
    /\ \E k \in 1..Len(data) : data[k] < MaxVal

\* C4: from on an empty sequence returns an empty heap without a fault;
\* is_empty() is then true and pop() then returns absence.
C4_FromEmpty ==
    (origin = "from" /\ arg = <<>>) =>
        /\ pc # "faulted"
        /\ (last_op = "from" => Len(data) = 0)
        /\ (last_op = "pop" /\ pushed = <<>> => ret = None)

\* C5: for every non-empty input sequence s, from(s) returns a heap whose
\* data is a permutation of s and satisfies the max-heap invariant.
C5_BulkHeapify ==
    (last_op = "from" /\ arg # <<>>) =>
        /\ pc = "live"
        /\ Len(data) = Len(arg)
        /\ BagOf(data) = BagOf(arg)
        /\ verify_heap(data)

\* from on five elements that were not in heap order, with duplicates
C5_Witness ==
    /\ last_op = "from" /\ Len(arg) = 5
    /\ ~verify_heap(arg) /\ data # arg
    /\ At(arg, 4) > At(arg, 0)
    /\ \E i, j \in 1..5 : i # j /\ arg[i] = arg[j]

\* C6: after the insertions (pushes onto new(), or from on a non-empty
\* sequence), popping until the heap is empty yields a non-increasing
\* sequence that is a permutation of the multiset inserted; pushing
\* 5, 3, 8, 1, 9, 2 yields 9, 8, 5, 3, 2, 1.
C6_ExtractionOrder ==
    /\ (pc = "live" /\ ProperOrigin /\ data = <<>> /\ pops = Len(drain)) =>
           /\ NonIncreasing(drain)
           /\ BagOf(drain) = BagOf(Inserted)
    /\ pc = "start" =>
           /\ ScenarioPushes = <<9, 8, 5, 3, 2, 1>>
           /\ ScenarioFrom = <<9, 8, 7, 4, 3, 2, 1, 0>>

\* five values pushed out of order onto new() and then drained completely
C6_Witness ==
    /\ pc = "live" /\ origin = "new" /\ data = <<>>
    /\ Len(pushed) = 5 /\ pops = 5 /\ Len(drain) = 5
    /\ ~NonIncreasing(pushed)
    /\ drain[1] > drain[5]

\* C7: pop on an empty heap returns None and leaves data the empty sequence,
\* however often it is repeated and whatever came before.
C7_PopEmpty ==
    (last_op = "pop" /\ prev = <<>>) =>
        /\ ret = None
        /\ data = <<>>
        /\ Len(data) = 0

\* a pop on a heap that was filled and emptied before
C7_Witness ==
    /\ last_op = "pop" /\ prev = <<>> /\ ret = None
    /\ pops >= 2 /\ pushed # <<>>

\* C8: for every input sequence s, draining from(s) yields the same values
\* as draining the heap obtained by pushing the elements of s onto new().
C8_BulkAgreesWithPushes ==
    (origin = "from" /\ pushed = <<>>
       /\ (pc = "faulted" \/ (data = <<>> /\ pops = Len(drain)))) =>
        /\ pc # "faulted"
        /\ drain = DrainAll(PushAll(new, arg))

\* C9: from new(), after k pushes and m pops made on a non-empty heap,
\* len() = k - m; a push adds exactly one, such a pop removes exactly one.
C9_SizeTracking ==
    origin = "new" =>
        /\ Len(data) = Len(pushed) - pops
        /\ (last_op = "push" => Len(data) = Len(prev) + 1)
        /\ (last_op = "pop" /\ prev # <<>> => Len(data) = Len(prev) - 1)

\* a push of a value that is stored already, after pops
C9_Witness ==
    /\ origin = "new" /\ last_op = "push"
    /\ pops >= 1 /\ Len(data) >= 3
    /\ \E k \in 1..Len(prev) : prev[k] = pushed[Len(pushed)]

\* C10: the conversion into a plain sequence returns the backing array as
\* it is: same length, same element at every index, so the result satisfies
\* the heap invariant whenever the heap did.
C10_IntoVecAsIs ==
    last_op = "into_vec" =>
        /\ Len(vec) = Len(prev)
        /\ \A k \in 1..Len(prev) : vec[k] = prev[k]
        /\ (verify_heap(prev) => verify_heap(vec))

\* a heap in heap order that is not sorted, converted
C10_Witness ==
    /\ last_op = "into_vec" /\ pc = "consumed"
    /\ Len(vec) >= 4
    /\ ~NonIncreasing(vec)
    /\ vec[2] < vec[3]

(* ------------- the heap under any choice among equal maxima ------------ *)
\* the children of p that hold the largest value; best_child returns one
best_child_any(d, p, end) ==
    LET c == children(p, end)
    IN  IF c = None THEN {}
        ELSE {c[1][k] : k \in {j \in 1..Len(c[1]) :
                  \A m \in 1..Len(c[1]) : At(d, c[1][j]) >= At(d, c[1][m])}}

\* every array sink_until can leave, over the choices of best_child_any
RECURSIVE sink_until_any(_, _, _)
sink_until_any(d, pos, end) ==
    LET bcs == best_child_any(d, pos, end)
    IN  IF bcs = {} THEN {d}
        ELSE IF \A child \in bcs : At(d, pos) >= At(d, child) THEN {d}
        ELSE UNION {sink_until_any(Swap(d, pos, child), child, end) :
                        child \in bcs}

\* every outcome of pop over those choices
pop_any(d) ==
    IF Len(d) # 0
    THEN {VecPop(e) : e \in sink_until_any(Swap(d, 0, Len(d) - 1), 0, Len(d) - 1)}
    ELSE {VecPop(d)}

TieInit ==
    /\ pc = "live"
    /\ data = new
    /\ alt = new
    /\ origin = "new"
    /\ arg = <<>>
    /\ last_op = "new"
    /\ prev = <<>>
    /\ ret = None
    /\ altRet = None
    /\ pushed = <<>>
    /\ pops = 0
    /\ drain = <<>>
    /\ ref = EmptyBag
    /\ refRet = None
    /\ vec = <<>>

TiePush ==
    /\ pc = "live"
    /\ Len(data) < MaxIns
    /\ \E item \in Values :
         /\ data' = push(data, item)
         /\ alt' = push(alt, item)
    /\ prev' = data
    /\ last_op' = "push"
    /\ UNCHANGED <<pc, origin, arg, ret, altRet, pushed, pops, drain, ref,
                   refRet, vec>>

TiePop ==
    /\ pc = "live"
    /\ data' = pop(data).data
    /\ ret' = pop(data).ret
    /\ \E r \in pop_any(alt) :
         /\ alt' = r.data
         /\ altRet' = r.ret
    /\ prev' = data
    /\ last_op' = "pop"
    /\ UNCHANGED <<pc, origin, arg, pushed, pops, drain, ref, refRet, vec>>

TieNext == TiePush \/ TiePop

SpecTie == TieInit /\ [][TieNext]_vars

\* C11: whichever largest child is taken among equal maxima, every pop of
\* any sequence of push and pop calls returns the same value as the code's
\* choice does, the same multiset stays stored, and the heap invariant holds
\* after every call.
C11_TieBreakIrrelevant ==
    /\ altRet = ret
    /\ Len(alt) = Len(data)
    /\ BagOf(alt) = BagOf(data)
    /\ verify_heap(alt)
    /\ verify_heap(data)

\* a pop after which the two choices have left different arrays
C11_Witness ==
    /\ last_op = "pop" /\ ret # None
    /\ alt # data
    /\ Len(data) >= 4

(* --------------------- the operations, step by step -------------------- *)
(* The same loops as above, with a record of what they do: path is the     *)
(* sequence of values pos takes, reads the indices of data that are read,  *)
(* compared or swapped, oob whether one of them is outside the Vec (the    *)
(* index panics and the loop stops), done whether the loop has ended       *)
(* within fuel swaps, subs the usize subtractions <<a, b>> (a - b) made.   *)

Idle(d, pos) ==
    [data |-> d, path |-> <<pos>>, reads |-> {}, done |-> TRUE, oob |-> FALSE]

\* slip: after the swap the loop goes on from pos instead of child
RECURSIVE sink_run_stay(_, _, _, _)
sink_run_stay(d, pos, end, fuel) ==
    LET c   == children(pos, end)
        acc == IF c = None THEN {} ELSE {c[1][k] : k \in 1..Len(c[1])} \cup {pos}
    IN  IF c = None THEN Idle(d, pos)
        ELSE IF \E i \in acc : i >= Len(d)
        THEN [data |-> d, path |-> <<pos>>, reads |-> acc, done |-> TRUE,
              oob |-> TRUE]
        ELSE LET child == best_child(d, pos, end)[1]
             IN  IF At(d, pos) >= At(d, child)
                 THEN [data |-> d, path |-> <<pos>>, reads |-> acc,
                       done |-> TRUE, oob |-> FALSE]
                 ELSE IF fuel = 0
                 THEN [data |-> d, path |-> <<pos>>, reads |-> acc,
                       done |-> FALSE, oob |-> FALSE]
                 ELSE LET r == sink_run_stay(Swap(d, pos, child), pos, end,
                                             fuel - 1)
                      IN  [data |-> r.data, path |-> <<pos>> \o r.path,
                           reads |-> acc \cup r.reads, done |-> r.done,
                           oob |-> r.oob]

RECURSIVE sink_run(_, _, _, _)
sink_run(d, pos, end, fuel) ==
    LET c   == children(pos, end)
        acc == IF c = None THEN {} ELSE {c[1][k] : k \in 1..Len(c[1])} \cup {pos}
    IN  IF c = None THEN Idle(d, pos)
        ELSE IF \E i \in acc : i >= Len(d)
        THEN [data |-> d, path |-> <<pos>>, reads |-> acc, done |-> TRUE,
              oob |-> TRUE]
        ELSE LET child == best_child(d, pos, end)[1]
             IN  IF At(d, pos) >= At(d, child)
                 THEN [data |-> d, path |-> <<pos>>, reads |-> acc,
                       done |-> TRUE, oob |-> FALSE]
                 ELSE IF fuel = 0
                 THEN [data |-> d, path |-> <<pos>>, reads |-> acc,
                       done |-> FALSE, oob |-> FALSE]
                 ELSE LET r == sink_run(Swap(d, pos, child), child, end,
                                        fuel - 1)
                      IN  [data |-> r.data, path |-> <<pos>> \o r.path,
                           reads |-> acc \cup r.reads, done |-> r.done,
                           oob |-> r.oob]

\* the subtraction child - 1 of parent
parent_subs(child) == IF child = 0 THEN {} ELSE {<<child, 1>>}

\* slip: `<` for `<=`, an item equal to its parent is swapped as well
RECURSIVE swim_run_ge(_, _, _)
swim_run_ge(d, pos, fuel) ==
    IF pos > 0
    THEN LET par == parent(pos)
             acc == {pos, par}
         IN  IF \E i \in acc : i >= Len(d)
             THEN [data |-> d, path |-> <<pos>>, reads |-> acc, done |-> TRUE,
                   oob |-> TRUE, subs |-> parent_subs(pos)]
             ELSE IF At(d, pos) < At(d, par)
             THEN [data |-> d, path |-> <<pos>>, reads |-> acc, done |-> TRUE,
                   oob |-> FALSE, subs |-> parent_subs(pos)]
             ELSE IF fuel = 0
             THEN [data |-> d, path |-> <<pos>>, reads |-> acc, done |-> FALSE,
                   oob |-> FALSE, subs |-> parent_subs(pos)]
             ELSE LET r == swim_run_ge(Swap(d, pos, par), par, fuel - 1)
                  IN  [data |-> r.data, path |-> <<pos>> \o r.path,
                       reads |-> acc \cup r.reads, done |-> r.done,
                       oob |-> r.oob, subs |-> parent_subs(pos) \cup r.subs]
    ELSE [data |-> d, path |-> <<pos>>, reads |-> {}, done |-> TRUE,
          oob |-> FALSE, subs |-> {}]

RECURSIVE swim_run(_, _, _)
swim_run(d, pos, fuel) ==
    IF pos > 0
    THEN LET par == parent(pos)
             acc == {pos, par}
         IN  IF \E i \in acc : i >= Len(d)
             THEN [data |-> d, path |-> <<pos>>, reads |-> acc, done |-> TRUE,
                   oob |-> TRUE, subs |-> parent_subs(pos)]
             ELSE IF At(d, pos) <= At(d, par)
             THEN [data |-> d, path |-> <<pos>>, reads |-> acc, done |-> TRUE,
                   oob |-> FALSE, subs |-> parent_subs(pos)]
             ELSE IF fuel = 0
             THEN [data |-> d, path |-> <<pos>>, reads |-> acc, done |-> FALSE,
                   oob |-> FALSE, subs |-> parent_subs(pos)]
             ELSE LET r == swim_run(Swap(d, pos, par), par, fuel - 1)
                  IN  [data |-> r.data, path |-> <<pos>> \o r.path,
                       reads |-> acc \cup r.reads, done |-> r.done,
                       oob |-> r.oob, subs |-> parent_subs(pos) \cup r.subs]
    ELSE [data |-> d, path |-> <<pos>>, reads |-> {}, done |-> TRUE,
          oob |-> FALSE, subs |-> {}]

push_run(d, item) == swim_run(Append(d, item), Len(d), Len(d) + 1)

\* slip: the whole Vec is sunk (sink) instead of the prefix (sink_until)
pop_run_whole(d) ==
    IF Len(d) # 0
    THEN LET last == Len(d) - 1
         IN  [subs |-> {<<Len(d), 1>>}, swap |-> {0, last}, end |-> last,
              sink |-> sink_run(Swap(d, 0, last), 0, Len(d), Len(d))]
    ELSE [subs |-> {}, swap |-> {}, end |-> 0, sink |-> Idle(d, 0)]

\* slip: the is_empty test is missing
pop_run_unguarded(d) ==
    LET last == (Len(d) - 1) % UsizeMod
    IN  [subs |-> {<<Len(d), 1>>}, swap |-> {0, last}, end |-> last,
         sink |-> IF Len(d) = 0 THEN Idle(d, 0)
                  ELSE sink_run(Swap(d, 0, last), 0, last, Len(d))]

pop_run(d) ==
    IF Len(d) # 0
    THEN LET last == Len(d) - 1
         IN  [subs |-> {<<Len(d), 1>>}, swap |-> {0, last}, end |-> last,
              sink |-> sink_run(Swap(d, 0, last), 0, last, Len(d))]
    ELSE [subs |-> {}, swap |-> {}, end |-> 0, sink |-> Idle(d, 0)]

\* slip: the loop runs over (1..=last_parent) and never sinks the root
RECURSIVE HeapifyRunSkipRoot(_, _)
HeapifyRunSkipRoot(d, p) ==
    IF p = 0 THEN <<>>
    ELSE LET r == sink_run(d, p, Len(d), Len(d))
         IN  <<[p |-> p, before |-> d, run |-> r]>>
                 \o HeapifyRunSkipRoot(r.data, p - 1)

\* one entry for every call of sink made by from, in call order
RECURSIVE HeapifyRun(_, _)
HeapifyRun(d, p) ==
    LET r == sink_run(d, p, Len(d), Len(d))
    IN  IF p = 0 THEN <<[p |-> p, before |-> d, run |-> r]>>
        ELSE <<[p |-> p, before |-> d, run |-> r]>> \o HeapifyRun(r.data, p - 1)

from_run(v) ==
    LET last == (Len(v) - 1) % UsizeMod
    IN  [subs |-> {<<Len(v), 1>>} \cup parent_subs(last),
         sinks |-> HeapifyRun(v, parent(last))]

StrictlyIncreasing(s) == \A k \in 1..(Len(s) - 1) : s[k] < s[k + 1]
StrictlyDecreasing(s) == \A k \in 1..(Len(s) - 1) : s[k] > s[k + 1]

\* the value handed to the last push
Item == pushed[Len(pushed)]

\* C12: in pop on a heap of length n >= 1, after the root has been swapped
\* into index n-1, sink_until(0, n-1) reads, compares and swaps only indices
\* below n-1, so the element removed and returned is the one that was at
\* index 0 before the call.
C12_DetachedSlotUntouched ==
    (last_op = "pop" /\ prev # <<>>) =>
        LET r == pop_run(prev)
            n == Len(prev)
        IN  /\ \A i \in r.sink.reads : i < n - 1
            /\ \A k \in 2..Len(r.sink.path) : r.sink.path[k] < n - 1
            /\ At(r.sink.data, n - 1) = At(prev, 0)
            /\ VecPop(r.sink.data) = [data |-> data, ret |-> ret]
            /\ ret = Some(At(prev, 0))

\* a pop whose sink went down a level and read the slot next to the detached one
C12_Witness ==
    /\ last_op = "pop" /\ Len(prev) = 5
    /\ Len(pop_run(prev).sink.path) >= 2
    /\ 3 \in pop_run(prev).sink.reads
    /\ At(prev, 0) > At(prev, 4)

HasChild(i, len) == children(i, len) # None

\* the indices from handed to sink, in call order
SinkOrder(v) == [k \in 1..Len(from_run(v).sinks) |-> from_run(v).sinks[k].p]

\* C13 as claimed: for every input length len >= 1, parent(len-1) is the
\* last node that has a child within [0, len), and from sinks every index
\* from parent(len-1) down to 0 in strictly decreasing order, each once.
C13_AsClaimed ==
    (last_op = "from" /\ arg # <<>>) =>
        LET len == Len(arg)
            lp  == parent(len - 1)
        IN  /\ HasChild(lp, len)
            /\ \A j \in (lp + 1)..(len - 1) : ~HasChild(j, len)
            /\ SinkOrder(arg) = [k \in 1..(lp + 1) |-> lp + 1 - k]

\* C13 as amended: for every input length len >= 2, parent(len-1) is the
\* last node that has a child within [0, len); for len = 1 it is the root,
\* which has no child; for every len >= 1 no larger index has a child and
\* from sinks every index from parent(len-1) down to 0 in strictly
\* decreasing order, each once.
C13_HeapifyStart ==
    (last_op = "from" /\ arg # <<>>) =>
        LET len == Len(arg)
            lp  == parent(len - 1)
        IN  /\ len >= 2 => HasChild(lp, len)
            /\ len = 1 => (lp = 0 /\ ~HasChild(lp, len))
            /\ \A j \in (lp + 1)..(len - 1) : ~HasChild(j, len)
            /\ SinkOrder(arg) = [k \in 1..(lp + 1) |-> lp + 1 - k]
            /\ StrictlyDecreasing(SinkOrder(arg))
            /\ from_run(arg).sinks[lp + 1].run.data = data

\* from on five elements: sink(1), then sink(0)
C13_Witness ==
    /\ last_op = "from" /\ Len(arg) = 5
    /\ SinkOrder(arg) = <<1, 0>>
    /\ data # arg

\* i, parent(i), parent(parent(i)), ..., 0
RECURSIVE PathToRoot(_)
PathToRoot(i) == IF i = 0 THEN <<0>> ELSE <<i>> \o PathToRoot(parent(i))

\* C14: push(item) on a heap of length n places item at index n and swaps it
\* with its parent only while it is strictly greater than the parent; only
\* n and the ancestors of n can change, every other index of [0, n) keeps
\* its value.
C14_SwimFrame ==
    last_op = "push" =>
        LET n   == Len(prev)
            pth == PathToRoot(n)
        IN  /\ Len(data) = n + 1
            /\ \A i \in 0..(n - 1) :
                   (\A k \in 1..Len(pth) : pth[k] # i) => At(data, i) = At(prev, i)
            /\ \E j \in 1..Len(pth) :
                 /\ At(data, pth[j]) = Item
                 /\ \A k \in 1..(j - 1) :
                        /\ Item > At(prev, pth[k + 1])
                        /\ At(data, pth[k]) = At(prev, pth[k + 1])
                 /\ j < Len(pth) => Item <= At(prev, pth[j + 1])
                 /\ \A k \in (j + 1)..Len(pth) : At(data, pth[k]) = At(prev, pth[k])
                 /\ push_run(prev, Item).path = SubSeq(pth, 1, j)
            /\ push_run(prev, Item).data = data
            /\ (n > 0 /\ Item <= At(prev, parent(n))) =>
                   /\ push_run(prev, Item).path = <<n>>
                   /\ data = Append(prev, Item)

\* an item pushed at index 4 that climbs to index 1 and stops below an
\* equal root
C14_Witness ==
    /\ last_op = "push" /\ Len(prev) = 4
    /\ At(data, 1) = Item /\ At(data, 4) < Item
    /\ At(data, 0) = Item
    /\ At(data, 2) = At(prev, 2)

\* the indices children(p, end) lists
ChildSet(p, end) ==
    LET c == children(p, end)
    IN  IF c = None THEN {} ELSE {c[1][k] : k \in 1..Len(c[1])}

\* C15: best_child(parent, end) returns absence exactly when
\* 3*parent+1 >= end, and otherwise an index c of {3*parent+1, 3*parent+2,
\* 3*parent+3} below end whose value is at least that of every other child
\* below end.
C15_BestChild ==
    last_op = "from" =>
        \A p \in 0..Len(arg), end \in 0..Len(arg) :
            LET bc == best_child(arg, p, end)
            IN  /\ (bc = None) <=> (3 * p + 1 >= end)
                /\ bc # None =>
                     /\ bc[1] \in {3 * p + 1, 3 * p + 2, 3 * p + 3}
                     /\ bc[1] < end
                     /\ \A c \in {3 * p + 1, 3 * p + 2, 3 * p + 3} :
                            c < end => At(arg, bc[1]) >= At(arg, c)

\* from on an input whose root has a larger second child, a smaller first
\* and third one, and whose node 1 has a single child
C15_Witness ==
    /\ last_op = "from" /\ Len(arg) = 5
    /\ At(arg, 2) > At(arg, 1) /\ At(arg, 2) > At(arg, 3)
    /\ best_child(arg, 0, 5) = Some(2)
    /\ best_child(arg, 1, 5) = Some(4)
    /\ best_child(arg, 1, 4) = None

\* C19: children(parent, end) returns exactly {3*parent+1, 3*parent+2,
\* 3*parent+3} intersected with [0, end), in increasing order, and returns
\* None exactly when 3*parent+1 >= end; never a present but empty list.
C19_Children ==
    last_op = "from" =>
        \A p \in 0..(Len(arg) + 1), end \in 0..(Len(arg) + 1) :
            LET c == children(p, end)
            IN  /\ (c = None) <=> (3 * p + 1 >= end)
                /\ c # None =>
                     /\ Len(c[1]) >= 1
                     /\ StrictlyIncreasing(c[1])
                     /\ {c[1][k] : k \in 1..Len(c[1])} =
                            {3 * p + 1, 3 * p + 2, 3 * p + 3} \cap (0..(end - 1))

\* from on five elements, where sink(1) has read the only child of node 1
C19_Witness ==
    /\ last_op = "from" /\ Len(arg) = 5
    /\ children(0, 5) = Some(<<1, 2, 3>>)
    /\ children(1, 5) = Some(<<4>>)
    /\ children(1, 4) = None
    /\ 4 \in from_run(arg).sinks[1].run.reads

\* C20: parent(0) = 0 and parent(i) = floor((i-1)/3) for i > 0, and for
\* every p, every end and every c with 0 < c < end, c is in
\* children(p, end) if and only if parent(c) = p.
C20_SameTree ==
    last_op = "from" =>
        /\ parent(0) = 0
        /\ \A i \in 1..(Len(arg) + 1) :
               /\ 3 * parent(i) <= i - 1
               /\ i - 1 < 3 * parent(i) + 3
        /\ \A p \in 0..(Len(arg) + 1), end \in 0..(Len(arg) + 1) :
               \A c \in 1..(end - 1) :
                   (c \in ChildSet(p, end)) <=> (parent(c) = p)

\* from on five elements: node 4 hangs under node 1 for sink and for swim
C20_Witness ==
    /\ last_op = "from" /\ Len(arg) = 5
    /\ parent(4) = 1 /\ 4 \in ChildSet(1, 5)
    /\ parent(3) = 0 /\ 3 \in ChildSet(0, 5)
    /\ from_run(arg).sinks[1].p = parent(4)

\* C16 as claimed: every call of push, pop and from on a non-empty sequence
\* terminates; in swim the position strictly decreases on every iteration
\* until it reaches 0 or the parent is not smaller; in sink_until the
\* position strictly increases on every iteration and stays below end.
C16_AsClaimed ==
    /\ last_op = "push" =>
           LET r == push_run(prev, Item)
               f == r.path[Len(r.path)]
           IN  /\ r.done
               /\ StrictlyDecreasing(r.path)
               /\ f = 0 \/ At(r.data, f) <= At(r.data, parent(f))
    /\ (last_op = "pop" /\ prev # <<>>) =>
           LET r == pop_run(prev)
           IN  /\ r.sink.done
               /\ StrictlyIncreasing(r.sink.path)
               /\ \A k \in 1..Len(r.sink.path) : r.sink.path[k] < r.end
    /\ (last_op = "from" /\ arg # <<>>) =>
           \A k \in 1..Len(from_run(arg).sinks) :
               LET r == from_run(arg).sinks[k].run
               IN  /\ r.done
                   /\ StrictlyIncreasing(r.path)
                   /\ \A j \in 1..Len(r.path) : r.path[j] < Len(arg)

\* C16 as amended: as claimed, but in sink_until it is every position the
\* loop moves to that is below end; the starting position is below end too
\* unless end = 0, which is pop on a heap of one element: sink_until(0, 0)
\* starts at pos = end and makes no iteration.
C16_Termination ==
    /\ last_op = "push" =>
           LET r == push_run(prev, Item)
               f == r.path[Len(r.path)]
           IN  /\ r.done
               /\ StrictlyDecreasing(r.path)
               /\ f = 0 \/ At(r.data, f) <= At(r.data, parent(f))
    /\ (last_op = "pop" /\ prev # <<>>) =>
           LET r == pop_run(prev)
           IN  /\ r.sink.done
               /\ StrictlyIncreasing(r.sink.path)
               /\ \A k \in 2..Len(r.sink.path) : r.sink.path[k] < r.end
               /\ r.end > 0 => r.sink.path[1] < r.end
               /\ r.end = 0 => (Len(prev) = 1 /\ r.sink.path = <<0>>)
    /\ (last_op = "from" /\ arg # <<>>) =>
           \A k \in 1..Len(from_run(arg).sinks) :
               LET r == from_run(arg).sinks[k].run
               IN  /\ r.done
                   /\ StrictlyIncreasing(r.path)
                   /\ \A j \in 1..Len(r.path) : r.path[j] < Len(arg)

\* a pop on five elements whose sink went from the root down to index 1
C16_Witness ==
    /\ last_op = "pop" /\ Len(prev) = 5
    /\ pop_run(prev).sink.path = <<0, 1>>
    /\ pop_run(prev).sink.done

\* C17: in every call of push, pop, or from on a non-empty sequence, every
\* index used to read, compare or swap elements of data is within
\* [0, data.length) at the moment of the access, and no index subtraction
\* goes below 0.
C17_IndexSafety ==
    /\ last_op = "push" =>
           LET r == push_run(prev, Item)
           IN  /\ ~r.oob
               /\ r.reads \subseteq 0..Len(prev)
               /\ \A s \in r.subs : s[1] >= s[2]
    /\ last_op = "pop" =>
           LET r == pop_run(prev)
           IN  /\ \A s \in r.subs : s[1] >= s[2]
               /\ r.swap \subseteq 0..(Len(prev) - 1)
               /\ ~r.sink.oob
               /\ r.sink.reads \subseteq 0..(Len(prev) - 1)
    /\ (last_op = "from" /\ arg # <<>>) =>
           /\ \A s \in from_run(arg).subs : s[1] >= s[2]
           /\ \A k \in 1..Len(from_run(arg).sinks) :
                  LET r == from_run(arg).sinks[k].run
                  IN  /\ ~r.oob
                      /\ r.reads \subseteq 0..(Len(arg) - 1)

\* a push onto four elements that compared index 4 with 1 and index 1 with 0
C17_Witness ==
    /\ last_op = "push" /\ Len(prev) = 4
    /\ push_run(prev, Item).reads = {0, 1, 4}
    /\ push_run(prev, Item).subs = {<<4, 1>>, <<1, 1>>}

\* i is p or a descendant of p
InSubtree(i, p) == \E k \in 1..Len(PathToRoot(i)) : PathToRoot(i)[k] = p

\* C18: during from on a non-empty sequence, after sink(p) has returned,
\* every index j >= p satisfies data[j] >= data[c] for each of its children
\* c < len, and sink(p) has changed only positions inside the subtree of p.
C18_HeapifyInvariant ==
    (last_op = "from" /\ arg # <<>>) =>
        \A k \in 1..Len(from_run(arg).sinks) :
            LET e     == from_run(arg).sinks[k]
                after == e.run.data
                len   == Len(arg)
            IN  /\ \A j \in e.p..(len - 1) :
                       \A c \in ChildSet(j, len) : At(after, j) >= At(after, c)
                /\ \A i \in 0..(len - 1) :
                       ~InSubtree(i, e.p) => At(after, i) = At(e.before, i)
                /\ k < Len(from_run(arg).sinks) =>
                       from_run(arg).sinks[k + 1].before = after

\* from on five elements where sink(1) swaps and sink(0) goes down two levels
C18_Witness ==
    /\ last_op = "from" /\ Len(arg) = 5
    /\ from_run(arg).sinks[1].run.data # arg
    /\ from_run(arg).sinks[2].run.path = <<0, 1, 4>>

====
